---- MODULE Spec2Model ----
(* Model of src/color_assignment_v3.py: class ColorAssigner.               *)
(*                                                                         *)
(* The clock counts ticks of one second, so that TIMEOUT_SEC is one tick.  *)
(* Line 67 compares an elapsed time with the timeout; for elapsed times    *)
(* that are whole multiples of any tick u with 0.5 s < u <= 1 s, "elapsed  *)
(* > 1.0 s" is "more than one tick", so the same model with the same       *)
(* IsExpired also describes the runs whose sleeps are 0.7 s long           *)
(* (test_color_assignment_complete_flow).  A colour (an RGB tuple in the   *)
(* source) is written as the name of the colour the tuple shows.  A        *)
(* compound (a string in the source, used only as a dictionary key) is     *)
(* written as a number: compound n is the n-th distinct name the caller    *)
(* has asked for, so a name never asked before is always the next number.  *)
(* The code only hashes and compares names, so every run of the program    *)
(* is a renaming of a run in which the names first appear in this order.   *)
(*                                                                         *)
(* color_for_compound reads the clock twice: line 43 reads the time it     *)
(* stamps the compound with, line 64 (in the sweep it calls) reads the     *)
(* time the ages are compared against.  The clock may move between the     *)
(* two reads.                                                              *)
(*                                                                         *)
(* call, ret, assignments, seen, no_expiry and held record what a caller   *)
(* observes or keeps; the assigner itself does not read them.  threads is  *)
(* used only where two callers run color_for_compound at the same time.    *)
EXTENDS Integers, Sequences, FiniteSets, TLC

\* ---------------------------------------------------------------- bounds
\* the clock stops at MaxTime
MaxTime == 2
\* the most the clock moves between the two time() reads of one
\* color_for_compound call (line 43 and line 64)
MaxDrift == 1
\* ------------------------------------------------------------- constants
TIMEOUT_SEC == 1

_palette == << "red", "purple", "orange", "pink", "green" >>

NoAvailableColors == "NoAvailableColors"

\* the distinct compound names the caller uses: one more than the palette
\* has colours, as in test_no_avaiable_colors_for_new_compound
Compounds == 1..(Len(_palette) + 1)

VARIABLES
    palette,            \* self._palette
    compound_to_color,  \* self._compound_to_color : compound -> color
    compound_last_used, \* self._compound_last_used : compound -> time
    color_avaliable,    \* self._color_avaliable : color -> BOOLEAN
    now,                \* the wall clock that time() reads
    seen,               \* the number of distinct compounds asked for so far
    call,               \* the step just taken: operation, argument and the
                        \* entries its sweep removed
    ret,                \* the colour that call returned, or what it raised
    assignments,        \* the dictionary that call returned
    no_expiry,          \* history: no sweep has removed an entry yet
    held,               \* the caller keeps the dictionary that line 75 returned
    threads             \* for each concurrent caller: the line it is at in
                        \* color_for_compound, and its local variables

vars == << palette, compound_to_color, compound_last_used, color_avaliable,
           now, seen, call, ret, assignments,
           no_expiry, held, threads >>

Range(s) == { s[i] : i \in 1..Len(s) }

\* the three dictionaries of one assigner, as one value
Dicts(c2c, lu, av) == [ c2c |-> c2c, lu |-> lu, av |-> av ]

Self == Dicts(compound_to_color, compound_last_used, color_avaliable)

EmptyDict == [ k \in {} |-> 0 ]

\* del d[k] for every k of keys
Without(d, keys) == [ k \in (DOMAIN d) \ keys |-> d[k] ]

\* d restricted to keys
Only(d, keys) == [ k \in (DOMAIN d) \cap keys |-> d[k] ]

\* line 67 with >= for >
IsExpiredAtTimeout(current_time, last_used) ==
    current_time - last_used >= TIMEOUT_SEC

\* line 67: current_time - last_used > TIMEOUT_SEC
IsExpired(current_time, last_used) == current_time - last_used > TIMEOUT_SEC

\* lines 65-70: the compounds the first loop collects
ExpiredCompounds(s, current_time) ==
    { c \in DOMAIN s.lu : IsExpired(current_time, s.lu[c]) }

\* the sweep without line 69: the colours of the expired are not freed
SweepKeepsColors(s, current_time) ==
    LET expired == ExpiredCompounds(s, current_time)
    IN  Dicts(Without(s.c2c, expired), Without(s.lu, expired), s.av)

\* the sweep without line 74: the expired keep their entry in
\* _compound_to_color
SweepKeepsAssignments(s, current_time) ==
    LET expired == ExpiredCompounds(s, current_time)
        freed   == { s.c2c[c] : c \in expired }
    IN  Dicts(s.c2c,
              Without(s.lu, expired),
              [ color \in DOMAIN s.av |->
                    IF color \in freed THEN TRUE ELSE s.av[color] ])

\* the sweep stamping every compound it leaves with the time it read
SweepRefreshes(s, current_time) ==
    LET expired == ExpiredCompounds(s, current_time)
        freed   == { s.c2c[c] : c \in expired }
    IN  Dicts(Without(s.c2c, expired),
              [ c \in (DOMAIN s.lu) \ expired |-> current_time ],
              [ color \in DOMAIN s.av |->
                    IF color \in freed THEN TRUE ELSE s.av[color] ])

\* lines 64-75: the sweep of get_compound_to_color_assignments
Sweep(s, current_time) ==
    LET expired == ExpiredCompounds(s, current_time)
        freed   == { s.c2c[c] : c \in expired }
    IN  Dicts(Without(s.c2c, expired),
              Without(s.lu, expired),
              [ color \in DOMAIN s.av |->
                    IF color \in freed THEN TRUE ELSE s.av[color] ])

\* the values listed in the reverse of the order of the palette
AvailableValuesReversed(av) ==
    [ i \in 1..Len(_palette) |-> av[_palette[Len(_palette) + 1 - i]] ]

\* line 50: list(self._color_avaliable.values()); the dictionary keeps the
\* order in which line 31 inserted its keys
AvailableValues(av) == [ i \in 1..Len(_palette) |-> av[_palette[i]] ]

\* a scan that stops one element short of the end of the list
HasIndexButLast(values, v) == \E i \in 1..(Len(values) - 1) : values[i] = v

\* line 50 / 56: list.index raises ValueError when v is not in the list
HasIndex(values, v) == \E i \in 1..Len(values) : values[i] = v

\* list.index returning the position of the last element equal to v
IndexOfLast(values, v) ==
    CHOOSE i \in 1..Len(values) :
        /\ values[i] = v
        /\ \A j \in (i + 1)..Len(values) : values[j] # v

\* line 50: list.index, the position of the first element equal to v
Index(values, v) ==
    CHOOSE i \in 1..Len(values) :
        /\ values[i] = v
        /\ \A j \in 1..(i - 1) : values[j] # v

\* lines 45-47 without line 46: the time stamp is left as it was
RefreshKeepsStamp(s, compound, current_time) == Dicts(s.c2c, s.lu, s.av)

\* line 46 stamping every compound instead of the one asked for
RefreshAll(s, compound, current_time) ==
    Dicts(s.c2c, [ c \in DOMAIN s.lu |-> current_time ], s.av)

\* line 46: the compound has an assignment after the sweep
Refresh(s, compound, current_time) ==
    Dicts(s.c2c, (compound :> current_time) @@ s.lu, s.av)

\* Assign without line 52: the colour is not marked as taken
AssignNoMark(s, compound, color, current_time) ==
    Dicts((compound :> color) @@ s.c2c,
          (compound :> current_time) @@ s.lu,
          s.av)

\* lines 52-54: the compound is given the colour found
Assign(s, compound, color, current_time) ==
    Dicts((compound :> color) @@ s.c2c,
          (compound :> current_time) @@ s.lu,
          (color :> FALSE) @@ s.av)

\* lines 44-45: the compound is a key of the dictionary the sweep returns
HasAssignment(s, compound, sweep_time) ==
    compound \in DOMAIN Sweep(s, sweep_time).c2c

\* color_for_compound giving a compound whose assignment expired the
\* colour it had before
ColorForKeepsOld(s, compound, current_time, sweep_time) ==
    LET swept == Sweep(s, sweep_time)
    IN  IF HasAssignment(s, compound, sweep_time)
        THEN [ s |-> Refresh(swept, compound, current_time),
               ret |-> swept.c2c[compound] ]
        ELSE IF compound \in DOMAIN s.c2c
             THEN [ s |-> Assign(swept, compound, s.c2c[compound], current_time),
                    ret |-> s.c2c[compound] ]
             ELSE IF HasIndex(AvailableValues(swept.av), TRUE)
                  THEN LET color_index == Index(AvailableValues(swept.av), TRUE)
                           color == _palette[color_index]
                       IN  [ s |-> Assign(swept, compound, color, current_time),
                             ret |-> color ]
                  ELSE [ s |-> swept, ret |-> NoAvailableColors ]

\* color_for_compound with line 53 moved in front of the try block: the
\* time stamp is written before the search for a colour
ColorForStampFirst(s, compound, current_time, sweep_time) ==
    LET swept == Sweep(s, sweep_time)
    IN  IF HasAssignment(s, compound, sweep_time)
        THEN [ s |-> Refresh(swept, compound, current_time),
               ret |-> swept.c2c[compound] ]
        ELSE IF HasIndex(AvailableValues(swept.av), TRUE)
             THEN LET color_index == Index(AvailableValues(swept.av), TRUE)
                      color == _palette[color_index]
                  IN  [ s |-> Assign(swept, compound, color, current_time),
                        ret |-> color ]
             ELSE [ s |-> Dicts(swept.c2c,
                                (compound :> current_time) @@ swept.lu,
                                swept.av),
                    ret |-> NoAvailableColors ]

\* lines 43-57: color_for_compound; current_time is read at line 43,
\* sweep_time at line 64
ColorFor(s, compound, current_time, sweep_time) ==
    LET swept == Sweep(s, sweep_time)
    IN  IF HasAssignment(s, compound, sweep_time)
        THEN [ s |-> Refresh(swept, compound, current_time),
               ret |-> swept.c2c[compound] ]
        ELSE IF HasIndex(AvailableValues(swept.av), TRUE)
             THEN LET color_index == Index(AvailableValues(swept.av), TRUE)
                      color == _palette[color_index]
                  IN  [ s |-> Assign(swept, compound, color, current_time),
                        ret |-> color ]
             ELSE [ s |-> swept, ret |-> NoAvailableColors ]

\* the record of a step that is no call of the assigner
NoCall(op) == [ op |-> op, compound |-> 0, expired |-> EmptyDict ]

\* the callers that may be inside color_for_compound at the same time
Threads == { "t1", "t2" }

\* a caller that is not inside color_for_compound; color is what its last
\* call returned or raised
Idle(compound, color_index, color) ==
    [ pc |-> "idle", compound |-> compound, current_time |-> 0,
      color_index |-> color_index, color |-> color ]

\* lines 24-31: the constructor
Construct(p) ==
    /\ palette = p
    /\ compound_to_color = EmptyDict
    /\ compound_last_used = EmptyDict
    /\ color_avaliable = [ color \in Range(_palette) |-> TRUE ]
    /\ now = 0
    /\ seen = 0
    /\ call = NoCall("__init__")
    /\ ret = "None"
    /\ assignments = EmptyDict
    /\ no_expiry = TRUE
    /\ held = FALSE
    /\ threads = [ t \in Threads |-> Idle(0, 0, "None") ]

\* line 80: the assigner is built as setUp builds it
Init == Construct(_palette)

\* time passes between two calls
Tick ==
    /\ now < MaxTime
    /\ now' = now + 1
    /\ call' = NoCall("sleep")
    /\ ret' = "None"
    /\ assignments' = EmptyDict
    /\ UNCHANGED << palette, compound_to_color, compound_last_used,
                    color_avaliable, seen, no_expiry, held, threads >>

\* lines 33-57: one call of color_for_compound
color_for_compound(compound, drift) ==
    \* a name asked for before, or the next new name
    /\ compound <= seen + 1
    /\ now + drift <= MaxTime
    /\ \E r \in { ColorFor(Self, compound, now, now + drift) } :
           /\ compound_to_color' = r.s.c2c
           /\ compound_last_used' = r.s.lu
           /\ color_avaliable' = r.s.av
           /\ ret' = r.ret
    /\ assignments' = EmptyDict
    /\ call' = [ op |-> "color_for_compound", compound |-> compound,
                 expired |-> Only(compound_to_color,
                                  ExpiredCompounds(Self, now + drift)) ]
    /\ no_expiry' = (no_expiry /\ ExpiredCompounds(Self, now + drift) = {})
    /\ seen' = IF compound > seen THEN compound ELSE seen
    /\ now' = now + drift
    /\ UNCHANGED << palette, held, threads >>

\* lines 59-75: the body of get_compound_to_color_assignments
GetAssignments ==
    /\ \E swept \in { Sweep(Self, now) } :
           /\ compound_to_color' = swept.c2c
           /\ compound_last_used' = swept.lu
           /\ color_avaliable' = swept.av
           /\ assignments' = swept.c2c
    /\ ret' = "None"
    /\ call' = [ op |-> "get_compound_to_color_assignments", compound |-> 0,
                 expired |-> Only(compound_to_color,
                                  ExpiredCompounds(Self, now)) ]
    /\ no_expiry' = (no_expiry /\ ExpiredCompounds(Self, now) = {})
    /\ UNCHANGED << palette, now, seen, threads >>

\* lines 59-75: one call of get_compound_to_color_assignments, the caller
\* reading the result at once
get_compound_to_color_assignments ==
    /\ GetAssignments
    /\ UNCHANGED held

\* lines 59-75: one call of get_compound_to_color_assignments, the caller
\* keeping the dictionary it was handed, to draw a legend from it later
keep_compound_to_color_assignments ==
    /\ GetAssignments
    /\ held' = TRUE

\* line 75: what the caller holds is self._compound_to_color itself, not a
\* copy of it
Returned == compound_to_color

Next ==
    \/ Tick
    \/ \E compound \in Compounds, drift \in 0..MaxDrift :
           color_for_compound(compound, drift)
    \/ get_compound_to_color_assignments

Spec == Init /\ [][Next]_vars

\* the same assigner with a caller that may keep what line 75 returns
NextKept ==
    \/ Tick
    \/ \E compound \in Compounds, drift \in 0..MaxDrift :
           color_for_compound(compound, drift)
    \/ get_compound_to_color_assignments
    \/ keep_compound_to_color_assignments

SpecKept == Init /\ [][NextKept]_vars

\* ---------------------------------------------------- concurrent callers
\* color_for_compound run by two callers, one statement at a time, within
\* one tick of the clock (nothing expires while they run)

\* caller t moves to line pc with its local variables changed as given
Goto(t, pc, changes) ==
    threads' = [ threads EXCEPT ![t] = changes @@ [ threads[t] EXCEPT !.pc = pc ] ]

\* what a step of a caller leaves alone besides the dictionaries
CallerFrame == UNCHANGED << palette, now, call, ret, assignments, no_expiry, held >>

\* line 43: current_time = time()
Line43(t, compound) ==
    /\ threads[t].pc = "idle"
    /\ compound <= seen + 1
    /\ seen' = IF compound > seen THEN compound ELSE seen
    /\ threads' = [ threads EXCEPT ![t] =
                        [ pc |-> "line44", compound |-> compound,
                          current_time |-> now, color_index |-> 0,
                          color |-> "None" ] ]
    /\ UNCHANGED << compound_to_color, compound_last_used, color_avaliable >>
    /\ CallerFrame

\* line 44: the call of get_compound_to_color_assignments, which sweeps
Line44(t) ==
    /\ threads[t].pc = "line44"
    /\ \E swept \in { Sweep(Self, now) } :
           /\ compound_to_color' = swept.c2c
           /\ compound_last_used' = swept.lu
           /\ color_avaliable' = swept.av
    /\ Goto(t, "line45", EmptyDict)
    /\ UNCHANGED seen
    /\ CallerFrame

\* line 45: if compound in compound_to_color_assignment
Line45(t) ==
    /\ threads[t].pc = "line45"
    /\ IF threads[t].compound \in DOMAIN compound_to_color
       THEN Goto(t, "line46", EmptyDict)
       ELSE Goto(t, "line50", EmptyDict)
    /\ UNCHANGED << compound_to_color, compound_last_used, color_avaliable, seen >>
    /\ CallerFrame

\* line 46: self._compound_last_used[compound] = current_time
Line46(t) ==
    /\ threads[t].pc = "line46"
    /\ compound_last_used'
           = (threads[t].compound :> threads[t].current_time) @@ compound_last_used
    /\ Goto(t, "line47", EmptyDict)
    /\ UNCHANGED << compound_to_color, color_avaliable, seen >>
    /\ CallerFrame

\* line 47: return compound_to_color_assignment[compound]
Line47(t) ==
    /\ threads[t].pc = "line47"
    /\ Goto(t, "idle",
            [ color |-> IF threads[t].compound \in DOMAIN compound_to_color
                        THEN compound_to_color[threads[t].compound]
                        ELSE "KeyError" ])
    /\ UNCHANGED << compound_to_color, compound_last_used, color_avaliable, seen >>
    /\ CallerFrame

\* line 50: color_index = list(self._color_avaliable.values()).index(True),
\* and lines 56-57 when index raises ValueError
Line50(t) ==
    /\ threads[t].pc = "line50"
    /\ IF HasIndex(AvailableValues(color_avaliable), TRUE)
       THEN Goto(t, "line51",
                 [ color_index |-> Index(AvailableValues(color_avaliable), TRUE) ])
       ELSE Goto(t, "idle", [ color |-> NoAvailableColors ])
    /\ UNCHANGED << compound_to_color, compound_last_used, color_avaliable, seen >>
    /\ CallerFrame

\* line 51 looking for an available colour once more instead of using the
\* index that line 50 found
ColorAtLine51Again(color_index, av) ==
    IF HasIndex(AvailableValues(av), TRUE)
    THEN _palette[Index(AvailableValues(av), TRUE)]
    ELSE _palette[color_index]

\* line 51: _palette[color_index]
ColorAtLine51(color_index, av) == _palette[color_index]

\* line 51: color = _palette[color_index]
Line51(t) ==
    /\ threads[t].pc = "line51"
    /\ Goto(t, "line52",
            [ color |-> ColorAtLine51(threads[t].color_index, color_avaliable) ])
    /\ UNCHANGED << compound_to_color, compound_last_used, color_avaliable, seen >>
    /\ CallerFrame

\* line 52: self._color_avaliable[color] = False
Line52(t) ==
    /\ threads[t].pc = "line52"
    /\ color_avaliable' = (threads[t].color :> FALSE) @@ color_avaliable
    /\ Goto(t, "line53", EmptyDict)
    /\ UNCHANGED << compound_to_color, compound_last_used, seen >>
    /\ CallerFrame

\* line 53: self._compound_last_used[compound] = current_time
Line53(t) ==
    /\ threads[t].pc = "line53"
    /\ compound_last_used'
           = (threads[t].compound :> threads[t].current_time) @@ compound_last_used
    /\ Goto(t, "line54", EmptyDict)
    /\ UNCHANGED << compound_to_color, color_avaliable, seen >>
    /\ CallerFrame

\* line 54: self._compound_to_color[compound] = color
Line54(t) ==
    /\ threads[t].pc = "line54"
    /\ compound_to_color'
           = (threads[t].compound :> threads[t].color) @@ compound_to_color
    /\ Goto(t, "line55", EmptyDict)
    /\ UNCHANGED << compound_last_used, color_avaliable, seen >>
    /\ CallerFrame

\* line 55: return color
Line55(t) ==
    /\ threads[t].pc = "line55"
    /\ Goto(t, "idle", EmptyDict)
    /\ UNCHANGED << compound_to_color, compound_last_used, color_avaliable, seen >>
    /\ CallerFrame

NextRace ==
    \E t \in Threads :
        \/ \E compound \in Compounds : Line43(t, compound)
        \/ Line44(t)
        \/ Line45(t)
        \/ Line46(t)
        \/ Line47(t)
        \/ Line50(t)
        \/ Line51(t)
        \/ Line52(t)
        \/ Line53(t)
        \/ Line54(t)
        \/ Line55(t)

SpecRace == Init /\ [][NextRace]_vars

\* the palettes a caller hands to the constructor: the one of the module,
\* and one of its own
Palettes == { _palette, << "green", "blue" >> }

\* line 24: the assigner built with any of these palettes
InitAnyPalette == \E p \in Palettes : Construct(p)

SpecAnyPalette == InitAnyPalette /\ [][Next]_vars

\* ------------------------------------------------- vocabulary of the claims
\* the compounds that are tracked and not expired at time t
LiveAt(t) ==
    { c \in (DOMAIN compound_to_color) \cap (DOMAIN compound_last_used) :
          t - compound_last_used[c] <= TIMEOUT_SEC }

\* the colours held by a compound that is live at time t
HeldAt(t) == { compound_to_color[c] : c \in LiveAt(t) }

\* the colours of the palette, in palette order, that no live compound holds
FreeIndexesAt(t) == { i \in 1..Len(_palette) : _palette[i] \notin HeldAt(t) }

LowestFreeAt(t) ==
    _palette[CHOOSE i \in FreeIndexesAt(t) : \A j \in FreeIndexesAt(t) : i <= j]

\* this step is a call color_for_compound(c); the sweep of the call reads
\* the clock as now'
IsColorFor(c) == call'.op = "color_for_compound" /\ call'.compound = c

\* this step is a call get_compound_to_color_assignments()
IsGet == call'.op = "get_compound_to_color_assignments"

\* ------------------------------------------------------------------- C1
\* C1: no two different compounds that are tracked and not expired hold
\* the same colour.
C1_NoSharedColor ==
    \A a \in LiveAt(now), b \in LiveAt(now) :
        a # b => compound_to_color[a] # compound_to_color[b]

\* two live compounds, the second of which was just given a colour that
\* the sweep of its call took back from an expired compound
C1_Witness ==
    /\ call.op = "color_for_compound"
    /\ call.compound \in LiveAt(now)
    /\ \E other \in LiveAt(now) : other # call.compound
    /\ \E old \in DOMAIN call.expired :
           /\ old # call.compound
           /\ compound_to_color[call.compound] = call.expired[old]

\* ------------------------------------------------------------------- C2
\* C2: a compound whose last lookup is no older than the timeout when a
\* step sweeps keeps its colour through that step, whatever the step is,
\* and a color_for_compound call for it returns that colour.
C2_Idempotence ==
    [][ \A c \in LiveAt(now') :
            /\ c \in DOMAIN compound_to_color'
            /\ compound_to_color'[c] = compound_to_color[c]
            /\ IsColorFor(c) => ret' = compound_to_color[c] ]_vars

\* a compound looked up again within the window, after other compounds
\* were given colours and one of them expired in this very call
C2_Witness ==
    /\ call.op = "color_for_compound"
    /\ call.compound \notin DOMAIN call.expired
    /\ call.expired # EmptyDict
    /\ ret \in Range(_palette)
    /\ ret # _palette[1]
    /\ compound_last_used[call.compound] = now
    /\ now > TIMEOUT_SEC

\* ------------------------------------------------------------------- C3
\* C3: a color_for_compound call for a compound that has no live
\* assignment at the sweep, and that does not fail, returns the colour of
\* lowest palette index among those no live compound holds.
C3_LowestIndex ==
    [][ \A c \in Compounds :
            (IsColorFor(c) /\ c \notin LiveAt(now') /\ ret' # NoAvailableColors)
                => ret' = LowestFreeAt(now') ]_vars

\* a colour that is not the first of the palette was allocated while a
\* colour of higher index was free too: colours were freed out of order
C3_Witness ==
    /\ call.op = "color_for_compound"
    /\ ret \in Range(_palette)
    /\ \E i \in 2..(Len(_palette) - 1) :
           /\ ret = _palette[i]
           /\ compound_last_used[call.compound] = now
           /\ \A j \in 1..(i - 1) : ~color_avaliable[_palette[j]]
           /\ \E j \in (i + 1)..Len(_palette) :
                  /\ color_avaliable[_palette[j]]
                  /\ \E k \in (j + 1)..Len(_palette) : ~color_avaliable[_palette[k]]
    /\ call.expired # EmptyDict

\* ------------------------------------------------------------------- C4
\* C4: on an assigner built by the constructor, as long as no sweep has
\* removed an entry, the i-th distinct compound asked for (i up to the
\* size of the palette) holds the i-th colour of the palette, and every
\* call for it returns that colour.
C4_PaletteOrder ==
    no_expiry =>
        /\ \A i \in 1..seen :
               i <= Len(_palette) =>
                   /\ i \in DOMAIN compound_to_color
                   /\ compound_to_color[i] = _palette[i]
        /\ (call.op = "color_for_compound" /\ call.compound <= Len(_palette))
               => ret = _palette[call.compound]

\* the last colour of the palette has just gone to the fifth compound, and
\* nothing has expired since the assigner was built
C4_Witness ==
    /\ no_expiry
    /\ call.op = "color_for_compound"
    /\ call.compound = Len(_palette)
    /\ seen = Len(_palette)
    /\ ret = _palette[Len(_palette)]
    /\ compound_last_used[1] < now

\* ------------------------------------------------------------------- C5
\* C5: a color_for_compound call raises NoAvailableColors exactly when, at
\* the time of its sweep, the compound has no live assignment and every
\* colour of the palette is held by a live compound; every other call
\* returns a colour of the palette.
C5_ExhaustionIff ==
    [][ \A c \in Compounds :
            IsColorFor(c) =>
                /\ (ret' = NoAvailableColors)
                       <=> (c \notin LiveAt(now') /\ Range(_palette) \subseteq HeldAt(now'))
                /\ (ret' # NoAvailableColors) => (ret' \in Range(_palette)) ]_vars

\* the palette is exhausted again after a first generation of assignments
\* expired and the colours were handed out a second time
C5_Witness ==
    /\ call.op = "color_for_compound"
    /\ ret = NoAvailableColors
    /\ ~no_expiry
    /\ call.compound \notin DOMAIN compound_to_color

\* ------------------------------------------------------------------- C6
\* C6: a color_for_compound call that raises NoAvailableColors leaves the
\* three dictionaries as they were: its sweep removed nothing and nothing
\* was added for the compound asked for.
C6_FailureChangesNothing ==
    [][ \A c \in Compounds :
            (IsColorFor(c) /\ ret' = NoAvailableColors) =>
                /\ compound_to_color' = compound_to_color
                /\ compound_last_used' = compound_last_used
                /\ color_avaliable' = color_avaliable
                /\ call'.expired = EmptyDict
                /\ c \notin DOMAIN compound_last_used' ]_vars

\* a failed call while some of the five assignments are one timeout old and
\* others are fresh
C6_Witness ==
    /\ call.op = "color_for_compound"
    /\ ret = NoAvailableColors
    /\ Cardinality(DOMAIN compound_to_color) = Len(_palette)
    /\ \E c \in DOMAIN compound_last_used :
           now - compound_last_used[c] = TIMEOUT_SEC
    /\ \E c \in DOMAIN compound_last_used : compound_last_used[c] = now

\* ------------------------------------------------------------------- C7
\* C7: when a call of either operation sweeps at a time at which compound
\* L was last looked up longer ago than the timeout, L loses its colour
\* and its time stamp, and the colour L held is afterwards either marked
\* available or held by the compound the call was made for, to which the
\* call returned it.
C7_Expiry ==
    [][ (IsGet \/ \E c \in Compounds : IsColorFor(c)) =>
            \A L \in DOMAIN compound_last_used :
                (now' - compound_last_used[L] > TIMEOUT_SEC) =>
                    /\ ~IsColorFor(L) =>
                           /\ L \notin DOMAIN compound_to_color'
                           /\ L \notin DOMAIN compound_last_used'
                    /\ \/ color_avaliable'[compound_to_color[L]]
                       \/ /\ call'.op = "color_for_compound"
                          /\ ret' = compound_to_color[L]
                          /\ call'.compound \in DOMAIN compound_to_color'
                          /\ compound_to_color'[call'.compound] = ret'
                          /\ compound_last_used'[call'.compound] = now ]_vars

\* a compound that held nothing got the colour that an expired compound
\* lost in the same call, and it is not the first colour of the palette
C7_Witness ==
    /\ call.op = "color_for_compound"
    /\ call.compound \notin DOMAIN call.expired
    /\ ret # _palette[1]
    /\ \E L \in DOMAIN call.expired :
           /\ ret = call.expired[L]
           /\ L \notin DOMAIN compound_to_color
           /\ L \notin DOMAIN compound_last_used

\* ------------------------------------------------------------------- C8
\* C8: a color_for_compound call for a compound whose own assignment is
\* older than the timeout at the sweep returns the colour of lowest index
\* that no live compound holds, as for a compound never seen, and records
\* it with the time of the call.
C8_ExpiredIsNew ==
    [][ \A c \in DOMAIN compound_last_used :
            (IsColorFor(c) /\ now' - compound_last_used[c] > TIMEOUT_SEC) =>
                /\ ret' = LowestFreeAt(now')
                /\ compound_to_color'[c] = ret'
                /\ compound_last_used'[c] = now
                /\ ~color_avaliable'[ret'] ]_vars

\* the compound came back after its expiry and was given another colour
\* than the one it held
C8_Witness ==
    /\ call.op = "color_for_compound"
    /\ call.compound \in DOMAIN call.expired
    /\ ret \in Range(_palette)
    /\ ret # call.expired[call.compound]
    /\ color_avaliable[call.expired[call.compound]]

\* ------------------------------------------------------------------- C9
\* C9: a compound whose last lookup is no older than the timeout when a
\* step sweeps stays assigned to its colour, the colour stays unavailable
\* and no other compound holds it; a color_for_compound call for it sets
\* its time stamp to the time of the call.
C9_NonExpiry ==
    [][ \A c \in LiveAt(now') :
            /\ c \in DOMAIN compound_last_used'
            /\ ~color_avaliable'[compound_to_color[c]]
            /\ \A o \in DOMAIN compound_to_color' :
                   compound_to_color'[o] = compound_to_color[c] => o = c
            /\ IsColorFor(c) =>
                   /\ compound_last_used'[c] = now
                   /\ compound_to_color'[c] = compound_to_color[c] ]_vars

\* at the last clock value a compound is looked up and keeps a colour that
\* is not the first of the palette, while the compound that held the first
\* colour since time 0 expires in the same call
C9_Witness ==
    /\ call.op = "color_for_compound"
    /\ now = MaxTime
    /\ call.compound \notin DOMAIN call.expired
    /\ \E L \in DOMAIN call.expired : call.expired[L] = _palette[1]
    /\ ret = _palette[2]
    /\ compound_to_color[call.compound] = ret
    /\ compound_last_used[call.compound] = now
    /\ color_avaliable[_palette[1]]

\* ------------------------------------------------------------------ C10
\* C10: the dictionary get_compound_to_color_assignments returns at time
\* t has no compound whose last lookup is older than the timeout at t, and
\* it maps compound c to a colour exactly when color_for_compound(c),
\* called at t in the state the call leaves, finds an assignment for c and
\* returns that colour.
C10_Assignments ==
    [][ IsGet =>
            /\ \A c \in DOMAIN assignments' :
                   /\ c \in DOMAIN compound_last_used
                   /\ now - compound_last_used[c] <= TIMEOUT_SEC
            /\ \A c \in Compounds :
                   LET after == Dicts(compound_to_color', compound_last_used',
                                      color_avaliable')
                   IN  /\ (c \in DOMAIN assignments')
                              <=> HasAssignment(after, c, now')
                       /\ (c \in DOMAIN assignments') =>
                              ColorFor(after, c, now', now').ret = assignments'[c] ]_vars

\* a call that returned some assignments after its sweep removed others
C10_Witness ==
    /\ call.op = "get_compound_to_color_assignments"
    /\ call.expired # EmptyDict
    /\ assignments # EmptyDict
    /\ assignments = compound_to_color
    /\ \E c \in DOMAIN assignments : now - compound_last_used[c] = TIMEOUT_SEC

\* ------------------------------------------------------------------ C11
\* C11: the dictionary a get_compound_to_color_assignments call returned,
\* and the caller kept, is changed by no later step.
C11_Snapshot == [][ held => Returned' = Returned ]_vars

\* ------------------------------------------------------------------ C12
\* C12: after a color_for_compound call on an assigner built with palette
\* p, the colour returned is a colour of p, the availability flags are
\* those of the colours of p, and the call raised NoAvailableColors exactly
\* when the compound holds nothing and every colour of p is held.
C12_ConstructorPalette ==
    (call.op = "color_for_compound") =>
        /\ ret \in Range(palette) \cup { NoAvailableColors }
        /\ DOMAIN color_avaliable = Range(palette)
        /\ (ret = NoAvailableColors)
               <=> /\ call.compound \notin DOMAIN compound_to_color
                   /\ Range(palette)
                          \subseteq { compound_to_color[c] : c \in DOMAIN compound_to_color }

\* ------------------------------------------------------------------ C13
\* the dictionaries in which the compounds of held hold the colours given,
\* with the time stamps given
FlowState(c2c, lu) ==
    Dicts(c2c, lu,
          [ color \in Range(_palette) |->
                \A c \in DOMAIN c2c : c2c[c] # color ])

\* a call for compound c at tick t in state before, the clock not moving
\* during the call, returns color and leaves state after
FlowStep(before, t, c, color, after) ==
    (Self = before /\ now = t /\ IsColorFor(c) /\ now' = t)
        => (ret' = color /\ Self' = after)

\* C13: with A, B, C the compounds 1, 2, 3 and a tick for each wait of
\* 0.7 s: on a new assigner the calls for A, B, C at tick 0 return the
\* colours 0, 1, 2 of the palette; the call for B at tick 1 returns colour
\* 1; at tick 2 the call for B returns colour 1 and removes A and C, and
\* the call for C that follows returns colour 0.
C13_CompleteFlow ==
    [][ LET A == 1
            B == 2
            C == 3
            C0 == _palette[1]
            C1 == _palette[2]
            C2 == _palette[3]
            F0 == FlowState(EmptyDict, EmptyDict)
            F1 == FlowState((A :> C0), (A :> 0))
            F2 == FlowState((A :> C0) @@ (B :> C1), (A :> 0) @@ (B :> 0))
            F3 == FlowState((A :> C0) @@ (B :> C1) @@ (C :> C2),
                            (A :> 0) @@ (B :> 0) @@ (C :> 0))
            F4 == FlowState((A :> C0) @@ (B :> C1) @@ (C :> C2),
                            (A :> 0) @@ (B :> 1) @@ (C :> 0))
            F5 == FlowState((B :> C1), (B :> 2))
            F6 == FlowState((B :> C1) @@ (C :> C0), (B :> 2) @@ (C :> 2))
        IN  /\ FlowStep(F0, 0, A, C0, F1)
            /\ FlowStep(F1, 0, B, C1, F2)
            /\ FlowStep(F2, 0, C, C2, F3)
            /\ FlowStep(F3, 1, B, C1, F4)
            /\ FlowStep(F4, 2, B, C1, F5)
            /\ FlowStep(F5, 2, C, C0, F6) ]_vars

\* the state at the end of the scenario: C has just been given colour 0
\* at tick 2, B holds colour 1 since its lookup at tick 2, A is gone
C13_Witness ==
    /\ now = 2
    /\ seen = 3
    /\ call = [ op |-> "color_for_compound", compound |-> 3,
                expired |-> EmptyDict ]
    /\ ret = _palette[1]
    /\ compound_to_color = (2 :> _palette[2]) @@ (3 :> _palette[1])
    /\ compound_last_used = (2 :> 2) @@ (3 :> 2)

\* ------------------------------------------------------------------ C14
\* C14: the compounds that have a colour are the compounds that have a
\* time stamp.
C14_SameKeys == DOMAIN compound_to_color = DOMAIN compound_last_used

\* after a call that raised, on an assigner that has already removed
\* entries and given their colours out again
C14_Witness ==
    /\ ret = NoAvailableColors
    /\ ~no_expiry
    /\ DOMAIN compound_last_used # {}
    /\ call.compound \notin DOMAIN compound_last_used
    /\ \E c \in DOMAIN compound_to_color : c > Len(_palette)

\* ------------------------------------------------------------------ C15
\* C15: a colour of the palette is marked unavailable exactly when one
\* tracked compound holds it and available exactly when none does; the
\* tracked compounds are as many as the unavailable colours, and no more
\* than the palette has colours.
C15_Availability ==
    /\ \A color \in Range(_palette) :
           LET holders == { c \in DOMAIN compound_to_color :
                               compound_to_color[c] = color }
           IN  /\ ~color_avaliable[color] <=> Cardinality(holders) = 1
               /\ color_avaliable[color] <=> holders = {}
    /\ Cardinality(DOMAIN compound_to_color)
           = Cardinality({ color \in Range(_palette) : ~color_avaliable[color] })
    /\ Cardinality(DOMAIN compound_to_color) <= Len(_palette)

\* colours were freed out of order: the first colour is available again
\* while later ones are held
C15_Witness ==
    /\ call.op = "get_compound_to_color_assignments"
    /\ call.expired # EmptyDict
    /\ color_avaliable[_palette[1]]
    /\ ~color_avaliable[_palette[2]]
    /\ color_avaliable[_palette[3]]
    /\ ~color_avaliable[_palette[4]]

\* the compounds whose last lookup is older than the timeout at time t
GoneAt(t) ==
    { L \in DOMAIN compound_last_used :
          t - compound_last_used[L] > TIMEOUT_SEC }

\* the availability flags after the colours of the compounds gone are freed
FlagsAfter(gone) ==
    [ color \in DOMAIN color_avaliable |->
          \/ color_avaliable[color]
          \/ \E L \in gone : compound_to_color[L] = color ]

\* ------------------------------------------------------------------ C16
\* C16: a call removes a compound only if the time since its last lookup
\* exceeds the timeout.  A compound whose last lookup is exactly one
\* timeout old at the sweep keeps its colour; a color_for_compound call
\* for it returns that colour and stamps it with the time of the call, and
\* any other call leaves its stamp as it was.
C16_StrictExpiry ==
    [][ (IsGet \/ \E c \in Compounds : IsColorFor(c)) =>
            \A L \in DOMAIN compound_last_used :
                /\ (L \notin DOMAIN compound_last_used')
                       => (now' - compound_last_used[L] > TIMEOUT_SEC)
                /\ (now' - compound_last_used[L] = TIMEOUT_SEC) =>
                       /\ L \in DOMAIN compound_to_color'
                       /\ compound_to_color'[L] = compound_to_color[L]
                       /\ IsColorFor(L) =>
                              /\ ret' = compound_to_color[L]
                              /\ compound_last_used'[L] = now
                       /\ ~IsColorFor(L) =>
                              compound_last_used'[L] = compound_last_used[L] ]_vars

\* after a sweep that removed the compounds two ticks old, a compound one
\* tick old is still there
C16_Witness ==
    /\ call.op \in { "color_for_compound", "get_compound_to_color_assignments" }
    /\ call.expired # EmptyDict
    /\ \E L \in DOMAIN compound_last_used :
           /\ L # call.compound
           /\ now - compound_last_used[L] = TIMEOUT_SEC
           /\ L \in DOMAIN compound_to_color

\* ------------------------------------------------------------------ C17
\* C17: a color_for_compound call for a compound that is live at the sweep
\* sets the time stamp of that compound to the time of the call; apart
\* from that it changes only what the sweep changes: the compounds gone
\* lose their entries and their colours become available.
C17_RefreshFrame ==
    [][ \A c \in LiveAt(now') :
            IsColorFor(c) =>
                /\ compound_to_color' = Without(compound_to_color, GoneAt(now'))
                /\ compound_last_used'
                       = [ L \in (DOMAIN compound_last_used) \ GoneAt(now') |->
                               IF L = c THEN now ELSE compound_last_used[L] ]
                /\ color_avaliable' = FlagsAfter(GoneAt(now')) ]_vars

\* a lookup that moved one stamp and nothing else: another compound keeps
\* its older stamp, nothing expired
C17_Witness ==
    /\ call.op = "color_for_compound"
    /\ call.expired = EmptyDict
    /\ ret = _palette[3]
    /\ compound_last_used[call.compound] = now
    /\ \E L \in DOMAIN compound_last_used : compound_last_used[L] < now
    /\ \E L \in DOMAIN compound_to_color : compound_to_color[L] = _palette[5]
    /\ now = 1

\* ------------------------------------------------------------------ C18
\* C18: get_compound_to_color_assignments changes only what the sweep
\* changes: the compounds older than the timeout lose their entries and
\* their colours become available; every other compound keeps its colour
\* and its time stamp, so listing does not renew a lease.
C18_GetFrame ==
    [][ IsGet =>
            /\ compound_to_color' = Without(compound_to_color, GoneAt(now))
            /\ compound_last_used' = Without(compound_last_used, GoneAt(now))
            /\ color_avaliable' = FlagsAfter(GoneAt(now))
            /\ now' = now ]_vars

\* a listing that removed two compounds and left one whose stamp is older
\* than the time of the listing
C18_Witness ==
    /\ call.op = "get_compound_to_color_assignments"
    /\ Cardinality(DOMAIN call.expired) >= 2
    /\ \E L \in DOMAIN compound_last_used : compound_last_used[L] < now
    /\ assignments = compound_to_color

\* ------------------------------------------------------------------ C19
\* C19: when every colour is taken and the compound asked for holds none
\* (the state in which the call raises), a color_for_compound call whose
\* sweep finds some compound older than the timeout returns the colour of
\* lowest palette index among those the sweep freed, and records it.
C19_Recovery ==
    [][ \A c \in Compounds :
            ( /\ IsColorFor(c)
              /\ c \notin DOMAIN compound_to_color
              /\ \A color \in DOMAIN color_avaliable : ~color_avaliable[color]
              /\ GoneAt(now') # {} ) =>
                LET freed == { i \in 1..Len(_palette) :
                                  \E L \in GoneAt(now') :
                                      compound_to_color[L] = _palette[i] }
                IN  /\ ret' # NoAvailableColors
                    /\ \E i \in freed :
                           /\ ret' = _palette[i]
                           /\ \A j \in freed : i <= j
                    /\ compound_to_color'[c] = ret'
                    /\ compound_last_used'[c] = now ]_vars

\* the sixth compound is given a colour on a palette that was full before
\* the sweep of its call, and not the first colour, which is still held
C19_Witness ==
    /\ call.op = "color_for_compound"
    /\ call.compound = Len(_palette) + 1
    /\ call.expired # EmptyDict
    /\ call.compound \notin DOMAIN call.expired
    /\ Cardinality(DOMAIN compound_to_color) + Cardinality(DOMAIN call.expired)
           = Len(_palette) + 1
    /\ ret \in Range(_palette)
    /\ ret # _palette[1]

\* ------------------------------------------------------------------ C20
\* C20: when two callers have each finished a color_for_compound call for
\* a compound of their own, and line 50 found the same index for both
\* (each looked for an available colour before the other marked it), the
\* two compounds are tracked, not expired, and hold the same colour.
C20_RaceSharesColor ==
    \A a \in Threads, b \in Threads :
        ( /\ a # b
          /\ threads[a].pc = "idle"
          /\ threads[b].pc = "idle"
          /\ threads[a].compound # threads[b].compound
          /\ threads[a].color_index > 0
          /\ threads[a].color_index = threads[b].color_index ) =>
            /\ threads[a].compound \in LiveAt(now)
            /\ threads[b].compound \in LiveAt(now)
            /\ compound_to_color[threads[a].compound]
                   = compound_to_color[threads[b].compound]
            /\ threads[a].color = threads[b].color

\* both callers are back from their calls, for two different compounds,
\* and the two compounds are live with the same colour
C20_Witness ==
    /\ \A t \in Threads : threads[t].pc = "idle"
    /\ threads["t1"].compound # threads["t2"].compound
    /\ threads["t1"].color \in Range(_palette)
    /\ threads["t1"].color = threads["t2"].color
    /\ threads["t1"].compound \in LiveAt(now)
    /\ threads["t2"].compound \in LiveAt(now)
    /\ compound_to_color[threads["t1"].compound]
           = compound_to_color[threads["t2"].compound]

====
